---- MODULE Spec2Model ----
(***************************************************************************)
(* Task / goal tracking back end: the request handlers CreateTask,         *)
(* ListTasks, UpdateTaskStatus, CreateOrUpdateGoal, ListGoalsForTask,      *)
(* ListGoalsForUser, DeleteGoal and the scheduled Deadline Reminder, over  *)
(* the Tasks and Goals tables, the Cognito user pool and the SMTP          *)
(* transport.                                                              *)
(***************************************************************************)
EXTENDS Integers, Sequences, FiniteSets, TLC

(***************************************************************************)
(* Bounds of the model.                                                    *)
(***************************************************************************)
MaxTasks == 3
MaxCreates == 2
MaxAssignees == 2
MaxGoals == 2
PageSize == 2

(***************************************************************************)
(* Text.  A Python str is a sequence of one-character strings, so that     *)
(* str.lower, str.split and == are computed, not assumed.                  *)
(***************************************************************************)
LowerChar(ch) ==
    CASE ch = "A" -> "a"
      [] ch = "D" -> "d"
      [] ch = "M" -> "m"
      [] ch = "I" -> "i"
      [] ch = "N" -> "n"
      [] ch = "E" -> "e"
      [] ch = "V" -> "v"
      [] OTHER -> ch

StrLower(s) == [i \in DOMAIN s |-> LowerChar(s[i])]

RECURSIVE SplitFrom(_, _, _)
SplitFrom(s, sep, cur) ==
    IF s = <<>> THEN <<cur>>
    ELSE IF Head(s) = sep THEN <<cur>> \o SplitFrom(Tail(s), sep, <<>>)
    ELSE SplitFrom(Tail(s), sep, Append(cur, Head(s)))

StrSplit(s, sep) == SplitFrom(s, sep, <<>>)

InSeq(x, s) == \E i \in DOMAIN s : s[i] = x

str_admin == <<"a", "d", "m", "i", "n">>
str_Admin == <<"A", "d", "m", "i", "n">>
str_ADMIN == <<"A", "D", "M", "I", "N">>
str_dev == <<"d", "e", "v">>
str_Admin_dev == str_Admin \o <<",">> \o str_dev

(***************************************************************************)
(* Callers: the verified claims the authorizer hands to a handler.         *)
(* groups is the cognito:groups claim, a list of names or one string.      *)
(***************************************************************************)
ListClaim(names) == [type |-> "list", names |-> names, text |-> <<>>]
StrClaim(text) == [type |-> "str", names |-> <<>>, text |-> text]

Callers == {"root", "lead", "multi", "ann"}
Users == {"root", "ann"}

Claims(c) ==
    CASE c = "root" -> [username |-> "root", email |-> "root@x", sub |-> "sub-root",
                        groups |-> ListClaim(<<str_Admin>>)]
      [] c = "lead" -> [username |-> "lead", email |-> "lead@x", sub |-> "sub-lead",
                        groups |-> ListClaim(<<str_admin>>)]
      [] c = "multi" -> [username |-> "multi", email |-> "b@x", sub |-> "sub-multi",
                         groups |-> StrClaim(str_Admin_dev)]
      [] OTHER -> [username |-> "ann", email |-> "a@x", sub |-> "sub-ann",
                   groups |-> ListClaim(<<>>)]

Emails == {"a@x", "b@x"}
admin_email == "boss@x"
NoValue == "none"

(***************************************************************************)
(* State.                                                                  *)
(***************************************************************************)
VARIABLES
    accounts,   \* user pool: the usernames (emails) that have an account
    tasks,      \* Tasks table: the items, in scan order
    goals,      \* Goals table: the items, in scan order
    nextGoal,   \* goal ids issued so far (uuid4 never repeats)
    ct,         \* CreateTask invocations: position and locals of each
    resp,       \* the response of the last handler that ran to completion
    now         \* wall clock, in seconds

vars == <<accounts, tasks, goals, nextGoal, ct, resp, now>>


(***************************************************************************)
(* Items of the Tasks table.  attrs is the set of attributes the item has; *)
(* a field outside attrs is absent (dict.get gives its default).           *)
(***************************************************************************)
TaskAttrs == {"taskId", "title", "description", "assignedTo", "status", "deadline",
              "createdBy"}
RequiredFields == {"title", "description", "deadline"}
Statuses == {"pending", "in-progress", "completed", "overdue"}

NoDeadline == [kind |-> "none", t |-> 0]
NoTask == [taskId |-> 0, attrs |-> {}, title |-> NoValue, description |-> NoValue,
           assignedTo |-> <<>>, status |-> NoValue, deadline |-> NoDeadline,
           createdBy |-> NoValue]

TaskIds == 1 .. MaxTasks

HasTask(store, id) == \E i \in DOMAIN store : store[i].taskId = id

\* str(uuid.uuid4()): an id no item of the store has
FreshTaskId(store) == CHOOSE id \in TaskIds : ~HasTask(store, id)
    /\ \A j \in TaskIds : ~HasTask(store, j) => id <= j

(***************************************************************************)
(* The SMTP transport.  smtplib's sendmail delivers to the recipients when *)
(* the session works, and refuses an empty recipient list.  ref is the     *)
(* task a reminder is about (its title in the subject line).               *)
(***************************************************************************)
SmtpSend(subject, ref, to, up) ==
    [subject |-> subject, ref |-> ref, to |-> to, sent |-> up /\ to # <<>>]

(***************************************************************************)
(* CreateTask (create-task-function).                                      *)
(***************************************************************************)
Slots == {1, 2}

IdleCT == [pc |-> "idle", caller |-> NoValue,
           body |-> [assignedTo |-> [kind |-> "absent", val |-> <<>>], has |-> {},
                     deadline |-> NoDeadline],
           i |-> 0, existing_users |-> <<>>, verified_emails |-> <<>>, pre |-> {},
           calls |-> <<>>, idpFailed |-> FALSE, status |-> 0, err |-> NoValue,
           task |-> NoTask, mail |-> <<>>]

\* 'admin' not in [g.lower() for g in groups], a str claim wrapped as one name
IsAdminCreate(groups) ==
    LET gs == IF groups.type = "str" THEN <<groups.text>> ELSE groups.names
    IN  InSeq(str_admin, [k \in DOMAIN gs |-> StrLower(gs[k])])

\* a check that forgets the empty list
BadAssignees_ListOnly(body) == body.assignedTo.kind # "list"

\* not isinstance(assignees, list) or not assignees
BadAssignees(body) == body.assignedTo.kind # "list" \/ body.assignedTo.val = <<>>

InFlight == Cardinality({r \in Slots : ct[r].pc \in {"get", "create", "save"}})

\* an error path that still notifies the assignees found so far
error_response_Notify(rec, status, err) ==
    [rec EXCEPT !.pc = "done", !.status = status, !.err = err,
                !.mail = <<SmtpSend("invite", 0, rec.existing_users, TRUE)>>]

error_response(rec, status, err) == [rec EXCEPT !.pc = "done", !.status = status, !.err = err]

\* "for email in assignees": the next element, or the code after the loop
NextAssignee(rec) ==
    IF rec.i >= Len(rec.body.assignedTo.val) THEN [rec EXCEPT !.pc = "save"]
    ELSE [rec EXCEPT !.pc = "get", !.i = rec.i + 1]

CTStart(r, c, body) ==
    /\ ct[r].pc \in {"idle", "done"}
    /\ Len(tasks) + InFlight < MaxCreates
    /\ LET fresh == [IdleCT EXCEPT !.caller = c, !.body = body, !.pre = accounts]
       IN  ct' = [ct EXCEPT ![r] =
                  IF ~IsAdminCreate(Claims(c).groups) THEN error_response(fresh, 403, "forbidden")
                  ELSE IF BadAssignees(body) THEN error_response(fresh, 400, "bad_request")
                  ELSE NextAssignee(fresh)]
    /\ UNCHANGED <<accounts, tasks, goals, nextGoal, resp, now>>

\* cognito.admin_get_user: found, UserNotFoundException, or another error
CTGetUser(r, works) ==
    /\ ct[r].pc = "get"
    /\ LET email == ct[r].body.assignedTo.val[ct[r].i]
           rec == [ct[r] EXCEPT !.calls = Append(@, [op |-> "get", email |-> email])]
       IN  ct' = [ct EXCEPT ![r] =
                  IF ~works THEN error_response([rec EXCEPT !.idpFailed = TRUE], 500, "unhandled")
                  ELSE IF email \in accounts
                  THEN NextAssignee([rec EXCEPT !.existing_users = Append(@, email),
                                                !.verified_emails = Append(@, email)])
                  ELSE [rec EXCEPT !.pc = "create"]]
    /\ UNCHANGED <<accounts, tasks, goals, nextGoal, resp, now>>

\* cognito.admin_create_user, which refuses a username that has an account
CTCreateUser(r, works) ==
    /\ ct[r].pc = "create"
    /\ LET email == ct[r].body.assignedTo.val[ct[r].i]
           rec == [ct[r] EXCEPT !.calls = Append(@, [op |-> "create", email |-> email])]
       IN  IF ~works \/ email \in accounts
           THEN /\ ct' = [ct EXCEPT ![r] =
                          error_response([rec EXCEPT !.idpFailed = TRUE], 500, "user_err")]
                /\ UNCHANGED accounts
           ELSE /\ accounts' = accounts \cup {email}
                /\ ct' = [ct EXCEPT ![r] =
                          NextAssignee([rec EXCEPT !.verified_emails = Append(@, email)])]
    /\ UNCHANGED <<tasks, goals, nextGoal, resp, now>>

RECURSIVE Dedup(_)
Dedup(q) ==
    IF q = <<>> THEN <<>>
    ELSE IF InSeq(q[Len(q)], SubSeq(q, 1, Len(q) - 1)) THEN Dedup(SubSeq(q, 1, Len(q) - 1))
    ELSE Append(Dedup(SubSeq(q, 1, Len(q) - 1)), q[Len(q)])

\* a task that stores its assignees as a set
NewTask_Dedup(id, body, verified, username) ==
    [taskId |-> id, attrs |-> TaskAttrs, title |-> "launch", description |-> "scope",
     assignedTo |-> Dedup(verified), status |-> "pending", deadline |-> body.deadline,
     createdBy |-> username]

NewTask(id, body, verified, username) ==
    [taskId |-> id, attrs |-> TaskAttrs, title |-> "launch", description |-> "scope",
     assignedTo |-> verified, status |-> "pending", deadline |-> body.deadline,
     createdBy |-> username]

\* send_email(subject, recipients) of create-task-function
InviteMail(recipients, up) == <<SmtpSend("invite", 0, recipients, up)>>

\* task = {...}; table.put_item; send_email; return 201
CTSave(r, up) ==
    /\ ct[r].pc = "save"
    /\ IF ~(RequiredFields \subseteq ct[r].body.has)
       THEN /\ ct' = [ct EXCEPT ![r] = error_response(ct[r], 500, "unhandled")]
            /\ UNCHANGED tasks
       ELSE LET task == NewTask(FreshTaskId(tasks), ct[r].body, ct[r].verified_emails,
                                Claims(ct[r].caller).username)
            IN  /\ tasks' = Append(tasks, task)
                /\ ct' = [ct EXCEPT ![r] = [ct[r] EXCEPT !.pc = "done", !.status = 201,
                                                        !.task = task,
                                                        !.mail = InviteMail(ct[r].existing_users, up)]]
    /\ UNCHANGED <<accounts, goals, nextGoal, resp, now>>

(***************************************************************************)
(* Table scans.  One scan call reads at most PageSize items after the      *)
(* start position, filters what it read, and reports the position to       *)
(* continue from (LastEvaluatedKey) when items remain; 0 is "no more".     *)
(***************************************************************************)
NoFilter == [attr |-> NoValue, val |-> NoValue]

\* Attr('assignedTo').contains(v) on an item of the Tasks table
TaskMatches(item, filter) ==
    \/ filter.attr = NoValue
    \/ /\ filter.attr = "assignedTo"
       /\ "assignedTo" \in item.attrs
       /\ InSeq(filter.val, item.assignedTo)

ScanTasksPage(store, filter, start) ==
    LET end == IF start + PageSize < Len(store) THEN start + PageSize ELSE Len(store)
        Keep(item) == TaskMatches(item, filter)
    IN  [items |-> SelectSeq(SubSeq(store, start + 1, end), Keep),
         last |-> IF end < Len(store) THEN end ELSE 0]

RECURSIVE ScanTasksLoop(_, _, _, _)
ScanTasksLoop(store, filter, start, acc) ==
    LET page == ScanTasksPage(store, filter, start)
    IN  IF page.last # 0
        THEN ScanTasksLoop(store, filter, page.last, acc \o page.items)
        ELSE acc \o page.items

\* a scan that stops after the first page
get_all_tasks_FirstPage(store, filter) == ScanTasksPage(store, filter, 0).items

get_all_tasks(store, filter) == ScanTasksLoop(store, filter, 0, <<>>)

(***************************************************************************)
(* Responses of the handlers that run in one step.                         *)
(***************************************************************************)
NoResp == [op |-> NoValue, caller |-> NoValue, id |-> 0, arg |-> NoValue, status |-> 0,
           err |-> NoValue,
           tasks |-> <<>>, goals |-> <<>>, mail |-> <<>>]

(***************************************************************************)
(* ListTasks (get-task-function).                                          *)
(***************************************************************************)
\* groups.split(',') for a str claim; 'Admin' in groups
IsAdminList(groups) ==
    LET gs == IF groups.type = "str"
              THEN (IF groups.text # <<>> THEN StrSplit(groups.text, ",") ELSE <<>>)
              ELSE groups.names
    IN  InSeq(str_Admin, gs)

ListFilter(c) ==
    IF IsAdminList(Claims(c).groups) THEN NoFilter
    ELSE [attr |-> "assignedTo", val |-> Claims(c).email]

ListTasks(c) ==
    /\ resp' = [NoResp EXCEPT !.op = "ListTasks", !.caller = c, !.status = 200,
                              !.tasks = get_all_tasks(tasks, ListFilter(c))]
    /\ UNCHANGED <<accounts, tasks, goals, nextGoal, ct, now>>

(***************************************************************************)
(* UpdateTaskStatus (update-task-function).                                *)
(***************************************************************************)
\* a check that lets a request without status through
ValidStatus_AllowMissing(st) == st \in Statuses \cup {NoValue}

\* new_status not in ['pending', 'in-progress', 'completed', 'overdue']
ValidStatus(st) == st \in Statuses

\* table.get_item(...).get('Item', {})
get_item(store, id) ==
    IF HasTask(store, id) THEN store[CHOOSE i \in DOMAIN store : store[i].taskId = id]
    ELSE NoTask

\* table.update_item(Key, "SET #s = :status"): writes the attribute, creating
\* the item when the key has none
update_item(store, id, st) ==
    IF HasTask(store, id)
    THEN [i \in DOMAIN store |->
            IF store[i].taskId = id
            THEN [store[i] EXCEPT !.status = st, !.attrs = @ \cup {"status"}]
            ELSE store[i]]
    ELSE Append(store, [NoTask EXCEPT !.taskId = id, !.attrs = {"taskId", "status"},
                                      !.status = st])

\* a notification that leaves the administrator out
StatusMail_AssigneesOnly(assignees, up) == <<SmtpSend("status", 0, assignees, up)>>

\* send_email(task, email, recipients) of update-task-function:
\* recipients.append(admin_email), then one sendmail
StatusMail(assignees, up) == <<SmtpSend("status", 0, Append(assignees, admin_email), up)>>

UpdateTaskStatus(c, id, st, up) ==
    /\ ~ValidStatus(st) \/ HasTask(tasks, id) \/ Len(tasks) + InFlight < MaxTasks
    /\ LET task == get_item(tasks, id)
           assignees == IF "assignedTo" \in task.attrs THEN task.assignedTo ELSE <<>>
       IN  IF ~ValidStatus(st)
           THEN /\ resp' = [NoResp EXCEPT !.op = "UpdateTaskStatus", !.caller = c, !.id = id,
                                          !.arg = st,
                                          !.status = 400, !.err = "invalid_status"]
                /\ UNCHANGED tasks
           ELSE /\ tasks' = update_item(tasks, id, st)
                /\ resp' = [NoResp EXCEPT !.op = "UpdateTaskStatus", !.caller = c, !.id = id,
                                          !.arg = st,
                                          !.status = 200, !.mail = StatusMail(assignees, up)]
    /\ UNCHANGED <<accounts, goals, nextGoal, ct, now>>

(***************************************************************************)
(* The task workflow: CreateTask step by step, with ListTasks and          *)
(* UpdateTaskStatus requests arriving in between.                          *)
(***************************************************************************)
ThreeDays == 3 * 86400
Aware(t) == [kind |-> "aware", t |-> t]
Naive(t) == [kind |-> "naive", t |-> t]

RECURSIVE SeqsUpTo(_, _)
SeqsUpTo(S, n) ==
    IF n = 0 THEN {<<>>}
    ELSE SeqsUpTo(S, n - 1) \cup {Append(q, x) : q \in SeqsUpTo(S, n - 1), x \in S}

AssignedToInputs ==
    {[kind |-> "absent", val |-> <<>>], [kind |-> "str", val |-> <<>>]}
    \cup {[kind |-> "list", val |-> q] : q \in SeqsUpTo(Emails, MaxAssignees)}

HasInputs == {RequiredFields} \cup {RequiredFields \ {f} : f \in RequiredFields}

TaskBodies(deadlines) ==
    [assignedTo : AssignedToInputs, has : HasInputs, deadline : deadlines]

Init ==
    /\ accounts \in SUBSET Emails
    /\ tasks = <<>>
    /\ goals = <<>>
    /\ nextGoal = 0
    /\ ct = [r \in Slots |-> IdleCT]
    /\ resp = NoResp
    /\ now = 0

Next ==
    \/ \E c \in Users, body \in TaskBodies({Aware(ThreeDays)}) : CTStart(1, c, body)
    \/ \E works \in BOOLEAN : CTGetUser(1, works)
    \/ \E works \in BOOLEAN : CTCreateUser(1, works)
    \/ \E up \in BOOLEAN : CTSave(1, up)

Spec == Init /\ [][Next]_vars

(***************************************************************************)
(* ListTasks and UpdateTaskStatus over a Tasks table that CreateTask has   *)
(* filled: every store of at most MaxTasks tasks is an initial state.      *)
(***************************************************************************)
RECURSIVE TaskStores(_, _, _)
TaskStores(n, lists, deadlines) ==
    IF n = 0 THEN {<<>>}
    ELSE LET prev == TaskStores(n - 1, lists, deadlines)
         IN  prev \cup {Append(s, NewTask(FreshTaskId(s), [deadline |-> d], q, "root")) :
                          s \in {p \in prev : Len(p) = n - 1}, q \in lists, d \in deadlines}

InitTasks ==
    /\ accounts = Emails
    /\ tasks \in TaskStores(MaxTasks, {<<"b@x", "a@x">>, <<"b@x">>},
                            {Aware(ThreeDays)})
    /\ goals = <<>>
    /\ nextGoal = 0
    /\ ct = [r \in Slots |-> IdleCT]
    /\ resp = NoResp
    /\ now = 0

\* the statuses the requests carry: one the handler accepts, one it does not,
\* and none
UpdateInputs == {"completed", "archived", NoValue}

NextTasks ==
    \/ \E c \in Callers : ListTasks(c)
    \/ \E id \in TaskIds, st \in UpdateInputs, up \in BOOLEAN :
          UpdateTaskStatus("ann", id, st, up)

SpecTasks == InitTasks /\ [][NextTasks]_vars

(***************************************************************************)
(* Properties of CreateTask, checked under Spec.                           *)
(***************************************************************************)
Completes(r) == ct[r].pc # "done" /\ ct'[r].pc = "done"

AdminRequest(r) ==
    /\ IsAdminCreate(Claims(ct'[r].caller).groups)
    /\ ct'[r].body.assignedTo.kind = "list"
    /\ ct'[r].body.assignedTo.val # <<>>
    /\ ~ct'[r].idpFailed

\* the outcome C1 promises for the request that completes in this step
CreatedOutcome(r) ==
    /\ ct'[r].status = 201
    /\ ~HasTask(tasks, ct'[r].task.taskId)
    /\ tasks' = Append(tasks, ct'[r].task)
    /\ ct'[r].task.attrs = TaskAttrs
    /\ ct'[r].task.assignedTo = ct'[r].body.assignedTo.val
    /\ ct'[r].task.status = "pending"
    /\ ct'[r].task.createdBy = Claims(ct'[r].caller).username

\* C1 as stated: every CreateTask request of an admin caller with a non-empty
\* assignedTo list whose provisioning calls all succeed ends with 201 and adds
\* exactly one Task, with assignedTo the input list verbatim, status pending and
\* createdBy the caller.
C1_EveryAdminRequestCreates ==
    [][\A r \in Slots : Completes(r) /\ AdminRequest(r) => CreatedOutcome(r)]_vars

\* C1 amended: the same, for requests that carry title, description and deadline.
C1_CompleteAdminRequestCreates ==
    [][\A r \in Slots :
          Completes(r) /\ AdminRequest(r) /\ RequiredFields \subseteq ct'[r].body.has
          => CreatedOutcome(r)]_vars

\* a 201 for a list that names one email twice, kept twice in the stored Task
C1_Witness ==
    /\ ct[1].pc = "done"
    /\ ct[1].status = 201
    /\ ct[1].body.assignedTo.val = <<"a@x", "a@x">>
    /\ Len(tasks) = 2
    /\ tasks[2] = ct[1].task
    /\ tasks[2].assignedTo = <<"a@x", "a@x">>

\* C2: a CreateTask request of a non-admin caller ends with 403, one with an
\* assignedTo that is empty or no list ends with 400, and either ends without a
\* Task written, an account created or an identity-provider call made.
C2_RejectedBeforeAnyMutation ==
    [][\A r \in Slots :
          Completes(r)
          /\ (~IsAdminCreate(Claims(ct'[r].caller).groups)
              \/ ct'[r].body.assignedTo.kind # "list" \/ ct'[r].body.assignedTo.val = <<>>)
          => /\ ct'[r].status =
                  IF ~IsAdminCreate(Claims(ct'[r].caller).groups) THEN 403 ELSE 400
             /\ ct[r].pc \in {"idle", "done"}
             /\ ct'[r].calls = <<>>
             /\ ct'[r].task = NoTask
             /\ ct'[r].mail = <<>>
             /\ tasks' = tasks
             /\ accounts' = accounts]_vars

\* an admin's request with an empty list is answered 400 while an assignee
\* still has no account
C2_Witness ==
    /\ ct[1].pc = "done"
    /\ ct[1].status = 400
    /\ ct[1].caller = "root"
    /\ ct[1].body.assignedTo = [kind |-> "list", val |-> <<>>]
    /\ accounts # Emails

\* C6: in a successful CreateTask the invitation email is addressed only to
\* assignees whose account existed before the request started.
C6_InviteOnlyPreExisting ==
    \A r \in Slots :
        ct[r].pc = "done" /\ ct[r].status = 201
        => \A k \in DOMAIN ct[r].mail : \A j \in DOMAIN ct[r].mail[k].to :
              ct[r].mail[k].to[j] \in ct[r].pre

\* C7: when no assignee of a created task had an account, every assignee is
\* provisioned, the Task is stored with status pending, and no send of the
\* Email Notifier is performed for the request.
C7_NoSendWhenAllNew ==
    \A r \in Slots :
        /\ ct[r].pc = "done" /\ ct[r].status = 201
        /\ \A j \in DOMAIN ct[r].body.assignedTo.val : ct[r].body.assignedTo.val[j] \notin ct[r].pre
        => /\ \A j \in DOMAIN ct[r].body.assignedTo.val : ct[r].body.assignedTo.val[j] \in accounts
           /\ ct[r].task.status = "pending"
           /\ HasTask(tasks, ct[r].task.taskId)
           /\ ct[r].mail = <<>>

\* C11: a CreateTask request in which a lookup or a creation of an account
\* fails ends with 500 and an error text, writes no Task and sends no email, and
\* the accounts it created for earlier assignees are still there.
C11_ProvisioningFailureEnds500 ==
    [][\A r \in Slots :
          Completes(r) /\ ct'[r].idpFailed
          => /\ ct'[r].status = 500
             /\ ct'[r].err # NoValue
             /\ ct'[r].task = NoTask
             /\ ct'[r].mail = <<>>
             /\ tasks' = tasks
             /\ accounts' = accounts
             /\ \A j \in DOMAIN ct'[r].verified_emails :
                   ct'[r].verified_emails[j] \in accounts']_vars

\* the second assignee's provisioning failed after the first assignee's account
\* had been created by the same request
C11_Witness ==
    /\ ct[1].pc = "done"
    /\ ct[1].idpFailed
    /\ ct[1].status = 500
    /\ ct[1].body.assignedTo.val = <<"a@x", "b@x">>
    /\ ct[1].verified_emails = <<"a@x">>
    /\ "a@x" \notin ct[1].pre
    /\ "a@x" \in accounts
    /\ tasks = <<>>

\* C12: a CreateTask request of an admin with a non-empty assignedTo list that
\* lacks title, description or deadline is rejected with no account created and
\* no Task written.
C12_ValidationBeforeMutation ==
    [][\A r \in Slots :
          /\ Completes(r)
          /\ IsAdminCreate(Claims(ct'[r].caller).groups)
          /\ ct'[r].body.assignedTo.kind = "list"
          /\ ct'[r].body.assignedTo.val # <<>>
          /\ ~(RequiredFields \subseteq ct'[r].body.has)
          => /\ ct'[r].status # 201
             /\ tasks' = tasks
             /\ accounts' = ct'[r].pre
             /\ \A k \in DOMAIN ct'[r].calls : ct'[r].calls[k].op # "create"]_vars

(***************************************************************************)
(* Properties of UpdateTaskStatus and ListTasks, checked under SpecTasks.  *)
(***************************************************************************)
\* C4: UpdateTaskStatus with a status outside {pending, in-progress, completed,
\* overdue}, a missing status included, returns 400, leaves the Tasks table as
\* it was and sends no notification.
C4_InvalidStatusRejected ==
    [][\A up \in BOOLEAN :
          /\ resp'.op = "UpdateTaskStatus"
          /\ UpdateTaskStatus(resp'.caller, resp'.id, resp'.arg, up)
          /\ resp'.arg \notin Statuses
          => /\ resp'.status = 400
             /\ resp'.mail = <<>>
             /\ tasks' = tasks]_vars

\* a request without status for a stored, assigned task was answered 400
C4_Witness ==
    /\ resp.op = "UpdateTaskStatus"
    /\ resp.arg = NoValue
    /\ resp.status = 400
    /\ HasTask(tasks, resp.id)
    /\ get_item(tasks, resp.id).assignedTo # <<>>

AssignedTasks(store, email) ==
    LET Mine(item) == "assignedTo" \in item.attrs
                      /\ \E j \in DOMAIN item.assignedTo : item.assignedTo[j] = email
    IN  SelectSeq(store, Mine)

\* C5: ListTasks answers a non-admin caller with exactly the stored Tasks whose
\* assignedTo contains the caller's email, and an admin caller with every stored
\* Task, whatever the number of scan pages.
C5_ListScopedByRole ==
    [][resp'.op = "ListTasks" /\ ListTasks(resp'.caller)
          => /\ resp'.status = 200
             /\ resp'.tasks = IF IsAdminList(Claims(resp'.caller).groups) THEN tasks
                              ELSE AssignedTasks(tasks, Claims(resp'.caller).email)]_vars

\* a non-admin caller got the one task assigned to them, stored on the second
\* scan page behind a task of somebody else
C5_Witness ==
    /\ resp.op = "ListTasks"
    /\ resp.caller = "ann"
    /\ Len(tasks) > PageSize
    /\ ~InSeq("a@x", tasks[1].assignedTo)
    /\ resp.tasks = <<tasks[Len(tasks)]>>
    /\ InSeq("a@x", tasks[Len(tasks)].assignedTo)

\* C13: UpdateTaskStatus with a valid status stores the status under the task's
\* key and returns 200 whether or not the transport delivers; the one message
\* goes to the task's assignees followed by the administrator address.
C13_ValidUpdatePersistsAndNotifies ==
    [][\A up \in BOOLEAN :
          /\ resp'.op = "UpdateTaskStatus"
          /\ resp'.arg \in Statuses
          /\ UpdateTaskStatus(resp'.caller, resp'.id, resp'.arg, up)
          => /\ resp'.status = 200
             /\ resp'.err = NoValue
             /\ HasTask(tasks', resp'.id)
             /\ "status" \in get_item(tasks', resp'.id).attrs
             /\ get_item(tasks', resp'.id).status = resp'.arg
             /\ Len(resp'.mail) = 1
             /\ resp'.mail[1].to = Append(get_item(tasks, resp'.id).assignedTo, admin_email)
             /\ resp'.mail[1].sent = up]_vars

\* the status of a task with two assignees was changed and stored although the
\* notification to the three recipients was not delivered
C13_Witness ==
    /\ resp.op = "UpdateTaskStatus"
    /\ resp.status = 200
    /\ resp.arg = "completed"
    /\ Len(resp.mail) = 1
    /\ ~resp.mail[1].sent
    /\ resp.mail[1].to = <<"b@x", "a@x", admin_email>>
    /\ get_item(tasks, resp.id).status = "completed"

\* C17: every item of the Tasks table was written by a successful CreateTask: it
\* has title, deadline, createdBy and a non-empty assignedTo; UpdateTaskStatus
\* adds no item.
C17_TasksOnlyFromCreateTask ==
    \A i \in DOMAIN tasks :
        /\ {"title", "deadline", "createdBy", "assignedTo"} \subseteq tasks[i].attrs
        /\ tasks[i].assignedTo # <<>>

\* C20: a caller passes CreateTask's admin check exactly when ListTasks answers
\* that caller without a filter.
C20_SameAdminClassification ==
    [][resp'.op = "ListTasks" /\ ListTasks(resp'.caller)
          => (IsAdminCreate(Claims(resp'.caller).groups)
              <=> ListFilter(resp'.caller) = NoFilter)]_vars

(***************************************************************************)
(* Numbers.  A decimal numeral mant * 10^(-exp): exp counts the digits     *)
(* after the point, and exp = 0 is the integer form ("42"); 42.5 is        *)
(* (425, 1) and 42.0 is (420, 1).                                          *)
(***************************************************************************)
Num(mant, exp) == [mant |-> mant, exp |-> exp]

RECURSIVE Trim(_)
Trim(n) == IF n.exp > 0 /\ n.mant % 10 = 0 THEN Trim(Num(n.mant \div 10, n.exp - 1)) ELSE n

RECURSIVE Pow10(_)
Pow10(k) == IF k = 0 THEN 1 ELSE 10 * Pow10(k - 1)

SameValue(a, b) == a.mant * Pow10(b.exp) = b.mant * Pow10(a.exp)
Integral(n) == Trim(n).exp = 0

\* json.loads(body, parse_float=Decimal): an integer literal becomes an int, a
\* literal with a fraction a Decimal of the same digits
ParseJsonNumber(tok) ==
    [type |-> IF tok.exp = 0 THEN "int" ELSE "Decimal", mant |-> tok.mant, exp |-> tok.exp]

\* the table's number type: the digits of the Python value, trailing zeros trimmed
ToStoreNumber(py) == Trim(Num(py.mant, py.exp))

\* what a scan gives back: every number as a Decimal
FromStoreNumber(n) == [type |-> "Decimal", mant |-> n.mant, exp |-> n.exp]

\* json.dumps of float(obj): repr of a float always has a fraction ("42.0")
FloatRepr(py) ==
    LET n == Trim(Num(py.mant, py.exp))
    IN  IF n.exp = 0 THEN Num(n.mant * 10, 1) ELSE n

\* decimal_default of the two listing handlers
decimal_default(py) == FloatRepr(py)

(***************************************************************************)
(* Items of the Goals table.                                               *)
(***************************************************************************)
GoalAttrs == {"goalId", "title", "description", "dueDate", "taskId", "userId",
              "userEmail", "assignee", "progress", "createdAt"}
UpdateAttrs == {"title", "description", "dueDate", "taskId", "progress", "assignee"}
ProgressAttrs == {"goalId", "title", "progress", "dueDate", "assignee"}

NoGoal == [goalId |-> 0, attrs |-> {}, title |-> NoValue, description |-> NoValue,
           dueDate |-> NoValue, taskId |-> 0, userId |-> NoValue, userEmail |-> NoValue,
           assignee |-> NoValue, progress |-> Num(0, 0), createdAt |-> 0]

GoalIds == 1 .. MaxGoals
\* a goalId no create has issued
UnknownGoalId == MaxGoals + 1

HasGoal(store, id) == \E i \in DOMAIN store : store[i].goalId = id

\* item.get(attr)
GoalGet(item, attr) == IF attr \in item.attrs THEN item[attr] ELSE NoValue

\* table.scan(FilterExpression=Attr(attr).eq(val)) on the Goals table: one call,
\* so one page
ScanGoals(store, attr, val) ==
    LET end == IF PageSize < Len(store) THEN PageSize ELSE Len(store)
        Keep(item) == attr \in item.attrs /\ item[attr] = val
    IN  SelectSeq(SubSeq(store, 1, end), Keep)

(***************************************************************************)
(* CreateOrUpdateGoal (create_goal).                                       *)
(***************************************************************************)
\* get_task_creator(task_id): scans `table`, which create_goal binds to the
\* Goals table (GOALS_TABLE), for taskId = task_id and reads createdBy of the
\* first match
get_task_creator(goalStore, taskStore, task_id) ==
    LET items == ScanGoals(goalStore, "taskId", task_id)
    IN  IF items = <<>> THEN NoValue ELSE GoalGet(items[1], "createdBy")

\* assignee = body.get('assignee'), else the task creator, else the caller
ResolveAssignee(c, body, goalStore, taskStore) ==
    IF body.assignee # NoValue THEN body.assignee
    ELSE LET creator == get_task_creator(goalStore, taskStore, body.taskId)
         IN  IF creator # NoValue THEN creator ELSE Claims(c).email

\* progress = body.get('progress', 0)
BodyProgress(body) ==
    IF body.progress.present THEN ParseJsonNumber(Num(body.progress.mant, body.progress.exp))
    ELSE [type |-> "int", mant |-> 0, exp |-> 0]

\* json.dumps(item, indent=2) in the create branch's debug print, before
\* put_item: the plain encoder takes an int and raises TypeError on a Decimal;
\* the handler's except clause then calls print(..., exc_info=True), which
\* raises TypeError itself, so the invocation ends without a response
DumpsItem(py) == py.type # "Decimal"

NewGoal(id, c, body, assignee, at) ==
    [goalId |-> id, attrs |-> GoalAttrs, title |-> "ui", description |-> "login page",
     dueDate |-> "due", taskId |-> body.taskId, userId |-> Claims(c).sub,
     userEmail |-> Claims(c).email, assignee |-> assignee,
     progress |-> ToStoreNumber(BodyProgress(body)), createdAt |-> at]

\* table.update_item(Key={'goalId': goalId}, "SET ..."): writes the six
\* attributes, creating the item when the key has none
update_goal(store, id, body, assignee) ==
    LET Set(item) == [item EXCEPT !.attrs = @ \cup UpdateAttrs, !.title = "ui",
                                  !.description = "login page", !.dueDate = "due",
                                  !.taskId = body.taskId,
                                  !.progress = ToStoreNumber(BodyProgress(body)),
                                  !.assignee = assignee]
    IN  IF HasGoal(store, id)
        THEN [i \in DOMAIN store |-> IF store[i].goalId = id THEN Set(store[i]) ELSE store[i]]
        ELSE Append(store, Set([NoGoal EXCEPT !.goalId = id, !.attrs = {"goalId"}]))

\* the request's goalId is one a create issued, or the unknown one; the table
\* never holds more than MaxGoals items
GoalFits(body) ==
    \/ ~body.complete
    \/ /\ body.mode = "update"
       /\ body.goalId <= nextGoal \/ body.goalId = UnknownGoalId
       /\ HasGoal(goals, body.goalId) \/ Len(goals) < MaxGoals
    \/ body.mode = "create" /\ nextGoal < MaxGoals /\ Len(goals) < MaxGoals

CreateOrUpdateGoal(c, body) ==
    /\ GoalFits(body)
    /\ LET assignee == ResolveAssignee(c, body, goals, tasks)
       IN  IF ~body.complete
           THEN /\ resp' = [NoResp EXCEPT !.op = "CreateOrUpdateGoal", !.status = 400,
                                          !.err = "missing_field"]
                /\ UNCHANGED <<goals, nextGoal>>
           ELSE IF body.mode = "update"
           THEN IF body.goalId = 0
                THEN /\ resp' = [NoResp EXCEPT !.op = "CreateOrUpdateGoal", !.status = 400,
                                               !.err = "goalId_required"]
                     /\ UNCHANGED <<goals, nextGoal>>
                ELSE /\ goals' = update_goal(goals, body.goalId, body, assignee)
                     /\ resp' = [NoResp EXCEPT !.op = "CreateOrUpdateGoal", !.status = 201,
                                               !.arg = "update", !.id = body.goalId]
                     /\ UNCHANGED nextGoal
           ELSE IF ~DumpsItem(BodyProgress(body))
           THEN /\ resp' = [NoResp EXCEPT !.op = "CreateOrUpdateGoal", !.arg = "create",
                                          !.err = "TypeError"]
                /\ UNCHANGED <<goals, nextGoal>>
           ELSE /\ nextGoal' = nextGoal + 1
                /\ goals' = Append(goals, NewGoal(nextGoal + 1, c, body, assignee, now))
                /\ resp' = [NoResp EXCEPT !.op = "CreateOrUpdateGoal", !.status = 201,
                                          !.arg = "create", !.id = nextGoal + 1]
    /\ UNCHANGED <<accounts, tasks, ct, now>>

(***************************************************************************)
(* ListGoalsForTask (get_goals_progress), ListGoalsForUser (get_user_goal).*)
(***************************************************************************)
\* json.dumps(..., default=decimal_default) of the projected fields
ProgressInfo(goal) ==
    [NoGoal EXCEPT !.goalId = goal.goalId, !.attrs = ProgressAttrs,
                   !.title = GoalGet(goal, "title"), !.dueDate = GoalGet(goal, "dueDate"),
                   !.assignee = GoalGet(goal, "assignee"),
                   !.progress = decimal_default(FromStoreNumber(goal.progress))]

\* json.dumps(item, default=decimal_default) of a whole item
GoalJson(goal) == [goal EXCEPT !.progress = decimal_default(FromStoreNumber(goal.progress))]

PathParams == {[kind |-> k, id |-> 0] : k \in {"missing", "null", "noTaskId", "empty"}}
              \cup {[kind |-> "id", id |-> t] : t \in TaskIds}

ListGoalsForTask(pp) ==
    /\ resp' =
         IF pp.kind = "null"
         THEN [NoResp EXCEPT !.op = "ListGoalsForTask", !.arg = pp.kind,
                             !.err = "AttributeError"]
         ELSE IF pp.kind # "id"
         THEN [NoResp EXCEPT !.op = "ListGoalsForTask", !.arg = pp.kind, !.status = 400,
                             !.err = "missing_taskId"]
         ELSE LET found == ScanGoals(goals, "taskId", pp.id)
              IN  [NoResp EXCEPT !.op = "ListGoalsForTask", !.arg = pp.kind, !.id = pp.id,
                                 !.status = 200,
                                 !.goals = [k \in DOMAIN found |-> ProgressInfo(found[k])]]
    /\ UNCHANGED <<accounts, tasks, goals, nextGoal, ct, now>>

ListGoalsForUser(c) ==
    /\ LET found == ScanGoals(goals, "userId", Claims(c).sub)
       IN  resp' = [NoResp EXCEPT !.op = "ListGoalsForUser", !.caller = c, !.status = 200,
                                  !.goals = [k \in DOMAIN found |-> GoalJson(found[k])]]
    /\ UNCHANGED <<accounts, tasks, goals, nextGoal, ct, now>>

(***************************************************************************)
(* DeleteGoal (delete_goal).                                               *)
(***************************************************************************)
\* a delete keyed by the wrong attribute
delete_item_ByTask(store, id) ==
    LET Keep(item) == item.taskId # id
    IN  SelectSeq(store, Keep)

\* table.delete_item(Key={'goalId': goalId})
delete_item(store, id) ==
    LET Keep(item) == item.goalId # id
    IN  SelectSeq(store, Keep)

DeleteGoal(method, id) ==
    /\ IF method = "DELETE"
       THEN /\ goals' = delete_item(goals, id)
            /\ resp' = [NoResp EXCEPT !.op = "DeleteGoal", !.arg = method, !.id = id,
                                      !.status = 200]
       ELSE /\ resp' = [NoResp EXCEPT !.op = "DeleteGoal", !.arg = method, !.id = id,
                                      !.status = 405, !.err = "method_not_allowed"]
            /\ UNCHANGED goals
    /\ UNCHANGED <<accounts, tasks, nextGoal, ct, now>>

(***************************************************************************)
(* The goal workflow over a Tasks table holding one task of "root".        *)
(***************************************************************************)
Progress(mant, exp) == [present |-> TRUE, mant |-> mant, exp |-> exp]
NoProgress == [present |-> FALSE, mant |-> 0, exp |-> 0]

GoalContents ==
    {[taskId |-> 1, assignee |-> NoValue, progress |-> Progress(42, 0)],
     [taskId |-> 2, assignee |-> NoValue, progress |-> Progress(425, 1)],
     [taskId |-> 1, assignee |-> "b@x", progress |-> NoProgress]}

GoalBody(mode, complete, content, goalId) ==
    [mode |-> mode, complete |-> complete, goalId |-> goalId, taskId |-> content.taskId,
     assignee |-> content.assignee, progress |-> content.progress]

GoalBodies ==
    {GoalBody("create", complete, content, 0) :
        complete \in BOOLEAN, content \in GoalContents}
    \cup {GoalBody("update", TRUE,
                    [taskId |-> 2, assignee |-> NoValue, progress |-> Progress(425, 1)], g) :
            g \in 0 .. UnknownGoalId}

InitGoals ==
    /\ accounts = Emails
    /\ tasks = <<NewTask(1, [deadline |-> Aware(ThreeDays)], <<"a@x">>, "root")>>
    /\ goals = <<>>
    /\ nextGoal = 0
    /\ ct = [r \in Slots |-> IdleCT]
    /\ resp = NoResp
    /\ now = 0

NextGoals ==
    \/ \E c \in Users, body \in GoalBodies :
          (body.mode = "update" => c = "ann") /\ CreateOrUpdateGoal(c, body)
    \/ \E pp \in PathParams : ListGoalsForTask(pp)
    \/ \E c \in Users : ListGoalsForUser(c)
    \/ \E method \in {"DELETE", "POST"}, id \in GoalIds : DeleteGoal(method, id)

SpecGoals == InitGoals /\ [][NextGoals]_vars

(***************************************************************************)
(* Properties of the goal handlers, checked under SpecGoals.               *)
(***************************************************************************)
\* C3: a create without explicit assignee stores the createdBy of the Task named
\* by taskId when the Tasks table has it, the caller's email when it has not;
\* an explicit assignee is stored as given.
C3_DefaultAssigneeIsTaskCreator ==
    [][\A c \in Users, body \in GoalBodies :
          body.mode = "create" /\ body.complete /\ CreateOrUpdateGoal(c, body)
          /\ resp'.status = 201
          => goals'[Len(goals')].assignee =
                IF body.assignee # NoValue THEN body.assignee
                ELSE IF HasTask(tasks, body.taskId)
                     THEN get_item(tasks, body.taskId).createdBy
                     ELSE Claims(c).email]_vars

OtherGoals(store, id) == {store[i] : i \in {j \in DOMAIN store : store[j].goalId # id}}

\* C9: a DELETE for a goalId returns 200 whether or not the table has the key,
\* leaves no Goal with that key, every other Goal and every Task as it was, and
\* the same DELETE again gives the same table and the same response.
C9_DeleteIdempotent ==
    [][resp'.op = "DeleteGoal" /\ resp'.arg = "DELETE" /\ DeleteGoal("DELETE", resp'.id)
          => /\ resp'.status = 200
             /\ ~HasGoal(goals', resp'.id)
             /\ OtherGoals(goals', resp'.id) = OtherGoals(goals, resp'.id)
             /\ Len(goals') = Cardinality(OtherGoals(goals, resp'.id))
             /\ tasks' = tasks
             /\ delete_item(goals', resp'.id) = goals'
             /\ (resp.op = "DeleteGoal" /\ resp.arg = "DELETE" /\ resp.id = resp'.id
                 => goals' = goals /\ resp' = resp)]_vars

\* a DELETE for a key the table does not hold was answered 200 and the goal of
\* another key is still stored
C9_Witness ==
    /\ resp.op = "DeleteGoal"
    /\ resp.status = 200
    /\ resp.id = 2
    /\ nextGoal = 1
    /\ Len(goals) = 1
    /\ goals[1].goalId = 1

StoredGoal(store, id) == store[CHOOSE i \in DOMAIN store : store[i].goalId = id]

\* C10: the number written as a goal's progress is stored with its value, and
\* both listing handlers return it with its value, in integer form when it is
\* an exact integer (42, never 42.0).
C10_ProgressRoundTrips ==
    [][/\ \A c \in Users, body \in GoalBodies :
             body.complete /\ body.progress.present /\ body.mode = "create"
             /\ CreateOrUpdateGoal(c, body) /\ resp'.status = 201
             => SameValue(goals'[Len(goals')].progress,
                          Num(body.progress.mant, body.progress.exp))
       /\ (\/ resp'.op = "ListGoalsForUser" /\ ListGoalsForUser(resp'.caller)
           \/ /\ resp'.op = "ListGoalsForTask" /\ resp'.status = 200
              /\ ListGoalsForTask([kind |-> "id", id |-> resp'.id]))
          => \A k \in DOMAIN resp'.goals :
                LET stored == StoredGoal(goals, resp'.goals[k].goalId).progress
                IN  /\ SameValue(resp'.goals[k].progress, stored)
                    /\ Integral(stored) => resp'.goals[k].progress.exp = 0]_vars

\* C14: CreateOrUpdateGoal in update mode with a goalId the Goals table has no
\* item for fails and leaves the table as it was.
C14_UpdateNeverCreates ==
    [][\A c \in Users, body \in GoalBodies :
          /\ body.mode = "update" /\ body.complete /\ body.goalId # 0
          /\ ~HasGoal(goals, body.goalId)
          /\ CreateOrUpdateGoal(c, body)
          => goals' = goals /\ resp'.status \notin {200, 201}]_vars

\* C15: every CreateOrUpdateGoal invocation ends with a response, and one in
\* which an exception was raised ends with status 500.
C15_AlwaysJsonResponse ==
    resp.op = "CreateOrUpdateGoal"
    => /\ resp.status \in {201, 400, 500}
       /\ resp.err \notin {NoValue, "missing_field", "goalId_required"} => resp.status = 500

\* C16: ListGoalsForTask answers 400 and returns no goals for every request
\* without a taskId: pathParameters missing, null, without taskId, or with an
\* empty taskId.
C16_MissingTaskIdIs400 ==
    resp.op = "ListGoalsForTask" /\ resp.arg # "id"
    => resp.status = 400 /\ resp.goals = <<>>

(***************************************************************************)
(* Deadline Reminder (send_deadline_reminders).                            *)
(***************************************************************************)
MaxNow == 2

Malformed == [kind |-> "malformed", t |-> 0]
NotText == [kind |-> "number", t |-> 0]

\* what is not caught by "except ValueError": fromisoformat of a value that is
\* no text, and the comparison of a date/time without offset with the aware now
RaisesTypeError(d) == d.kind \in {"naive", "number"}

\* now < task_due <= threshold
InWindow(d, at) == d.kind = "aware" /\ at < d.t /\ d.t <= at + ThreeDays

ItemDeadline(item) == IF "deadline" \in item.attrs THEN item.deadline ELSE NoDeadline
ItemAssignees(item) == IF "assignedTo" \in item.attrs THEN item.assignedTo ELSE <<>>

\* the first loop: the Items of one table.scan() whose deadline is in the window
Upcoming(store, at) ==
    LET Due(item) == InWindow(ItemDeadline(item), at)
    IN  SelectSeq(ScanTasksPage(store, NoFilter, 0).items, Due)

\* the first loop ends in an exception nothing catches
ScanRaises(store) ==
    LET items == ScanTasksPage(store, NoFilter, 0).items
    IN  \E i \in DOMAIN items : RaisesTypeError(ItemDeadline(items[i]))

\* the second loop: one send_email per upcoming task that has assignees
Reminders(upcoming, down) ==
    LET Has(item) == ItemAssignees(item) # <<>>
        due == SelectSeq(upcoming, Has)
    IN  [k \in DOMAIN due |->
            SmtpSend("deadline", due[k].taskId, ItemAssignees(due[k]),
                     due[k].taskId \notin down)]

ReminderRun(down) ==
    /\ resp' = IF ScanRaises(tasks)
               THEN [NoResp EXCEPT !.op = "DeadlineReminder", !.id = now, !.err = "TypeError"]
               ELSE [NoResp EXCEPT !.op = "DeadlineReminder", !.id = now,
                                   !.mail = Reminders(Upcoming(tasks, now), down)]
    /\ UNCHANGED <<accounts, tasks, goals, nextGoal, ct, now>>

Tick ==
    /\ now < MaxNow
    /\ now' = now + 1
    /\ UNCHANGED <<accounts, tasks, goals, nextGoal, ct, resp>>

DeadlineInputs ==
    {Aware(1), Aware(ThreeDays), Aware(ThreeDays + 1), Naive(ThreeDays), Malformed, NotText}

InitReminder ==
    /\ accounts = Emails
    /\ tasks \in TaskStores(MaxTasks, {<<"a@x">>, <<"b@x", "a@x">>}, DeadlineInputs)
    /\ goals = <<>>
    /\ nextGoal = 0
    /\ ct = [r \in Slots |-> IdleCT]
    /\ resp = NoResp
    /\ now = 0

NextReminder ==
    \/ \E down \in SUBSET TaskIds : ReminderRun(down)
    \/ Tick

SpecReminder == InitReminder /\ [][NextReminder]_vars

(***************************************************************************)
(* Properties of the Deadline Reminder, checked under SpecReminder.        *)
(***************************************************************************)
Emailed(r, item) == \E k \in DOMAIN r.mail : r.mail[k].ref = item.taskId

\* C8: in a run at time now, a Task of the scanned page that has an assignee
\* and a date/time deadline is emailed exactly when now < deadline <= now + 3
\* days.
C8_EmailedIffInWindow ==
    [][\A down \in SUBSET TaskIds :
          resp'.op = "DeadlineReminder" /\ ReminderRun(down)
          => \A i \in 1 .. (IF PageSize < Len(tasks) THEN PageSize ELSE Len(tasks)) :
                tasks[i].assignedTo # <<>> /\ tasks[i].deadline.kind = "aware"
                => (Emailed(resp', tasks[i])
                    <=> now < tasks[i].deadline.t /\ tasks[i].deadline.t <= now + ThreeDays)]_vars

\* C18: a run over a page holding a Task whose deadline is malformed text, a
\* date/time without offset or not text ends normally, sends nothing for that
\* Task, and sends the reminder for every Task of the page that has an assignee
\* and a deadline in the window.
C18_UnreadableDeadlineSkipped ==
    [][\A down \in SUBSET TaskIds :
          /\ resp'.op = "DeadlineReminder" /\ ReminderRun(down)
          /\ \E i \in 1 .. (IF PageSize < Len(tasks) THEN PageSize ELSE Len(tasks)) :
                tasks[i].deadline.kind \in {"malformed", "naive", "number"}
          => /\ resp'.err = NoValue
             /\ \A i \in 1 .. (IF PageSize < Len(tasks) THEN PageSize ELSE Len(tasks)) :
                   /\ tasks[i].deadline.kind \in {"malformed", "naive", "number"}
                      => ~Emailed(resp', tasks[i])
                   /\ tasks[i].assignedTo # <<>> /\ InWindow(tasks[i].deadline, now)
                      => Emailed(resp', tasks[i])]_vars

\* C19: a run writes nothing, and whatever earlier runs did, it attempts one
\* message to the assignees of every Task of the page that has an assignee and a
\* deadline in the window; a message that fails does not keep the others from
\* being delivered.
C19_RemindsAgainEveryRun ==
    [][\A down \in SUBSET TaskIds :
          resp'.op = "DeadlineReminder" /\ ReminderRun(down)
          => /\ tasks' = tasks
             /\ \A i \in 1 .. (IF PageSize < Len(tasks) THEN PageSize ELSE Len(tasks)) :
                   tasks[i].assignedTo # <<>> /\ InWindow(tasks[i].deadline, now)
                   => \E k \in DOMAIN resp'.mail :
                         /\ resp'.mail[k].ref = tasks[i].taskId
                         /\ resp'.mail[k].to = tasks[i].assignedTo
                         /\ resp'.mail[k].sent = (tasks[i].taskId \notin down)]_vars

(***************************************************************************)
(* Two CreateTask invocations at once: each Lambda invocation runs its own  *)
(* handler, and the calls to the user pool and the table interleave.        *)
(***************************************************************************)
\* bodies that pass validation and carry every field of the task
RaceBodies ==
    {b \in TaskBodies({Aware(ThreeDays)}) :
        b.has = RequiredFields /\ b.assignedTo.kind = "list" /\ b.assignedTo.val # <<>>}

NextRace ==
    \E r \in Slots :
        \/ \E body \in RaceBodies : CTStart(r, "root", body)
        \/ CTGetUser(r, TRUE)
        \/ CTCreateUser(r, TRUE)
        \/ \E up \in BOOLEAN : CTSave(r, up)

SpecRace == Init /\ [][NextRace]_vars

\* C21: two CreateTask requests of admin callers that name the same assignee,
\* who had no account when either started, both end with 201, both Tasks are
\* stored, and the assignee has an account.
C21_ConcurrentCreatesBothSucceed ==
    \A r \in Slots, q \in Slots, e \in Emails :
        /\ r # q
        /\ ct[r].pc = "done" /\ ct[q].pc = "done"
        /\ InSeq(e, ct[r].body.assignedTo.val) /\ InSeq(e, ct[q].body.assignedTo.val)
        /\ e \notin ct[r].pre /\ e \notin ct[q].pre
        => /\ ct[r].status = 201 /\ ct[q].status = 201
           /\ HasTask(tasks, ct[r].task.taskId) /\ HasTask(tasks, ct[q].task.taskId)
           /\ ct[r].task.taskId # ct[q].task.taskId
           /\ e \in accounts

====
